---------------------------- MODULE Spec2Model ----------------------------
(***************************************************************************)
(* Paraxial optics: ABCD transfer operators (surfaces.py) applied to Rays  *)
(* and GaussianBeams (sources.py).                                         *)
(*                                                                         *)
(* Numbers.  A Python int (and a quotient of two of them, which the model  *)
(* keeps exact, as with fractions.Fraction operands) is a fraction         *)
(* <<num, den>> in lowest terms with den > 0.  A Python float is a         *)
(* fraction tagged <<num, den, "float">>; every +, -, *, / with a float    *)
(* operand gives a float, rounded to the nearest value with FloatBits      *)
(* significant bits, ties to even (CPython rounds the same way to 53       *)
(* bits).  A complex number is a record [re, im].  x / 0 raises            *)
(* ZeroDivisionError.                                                      *)
(*                                                                         *)
(* Objects live on a heap: `ops' holds the ABCD instances and `rays' the   *)
(* Ray / GaussianBeam instances, an object's identity is its index, and    *)
(* `names' are the caller's variables bound to objects.  `last' records    *)
(* the most recent call, its arguments and what it returned or raised.     *)
(***************************************************************************)
EXTENDS Integers, Sequences, FiniteSets, TLC

VARIABLES ops, rays, names, last

vars == <<ops, rays, names, last>>

(* ------------------------------ bounds --------------------------------- *)
\* operators on the heap under SpecCompose
MaxOps == 3
\* operators on the heap where rays, reads or names share the state space
MaxOpsSmall == 2
\* Rays and GaussianBeams on the heap
MaxRays == 2
\* significant bits of a float
FloatBits == 3
\* beams kept under SpecBeam
MaxBeams == 1

\* Rays on the heap under SpecChain: a ray, an intermediate and a result
MaxChainRays == 3
\* interfaces on the heap under SpecInterface
MaxInterfaces == 1

(* ------------------------------ numbers -------------------------------- *)
Abs(x) == IF x < 0 THEN -x ELSE x

RECURSIVE GCD(_, _)
GCD(a, b) == IF b = 0 THEN a ELSE GCD(b, a % b)

RECURSIVE Pow2(_)
Pow2(k) == IF k = 0 THEN 1 ELSE 2 * Pow2(k - 1)

\* the fraction n/d in lowest terms with a positive denominator (d # 0)
Rat(n, d) ==
    LET g == GCD(Abs(n), Abs(d))
        s == IF d < 0 THEN -1 ELSE 1
    IN  <<(s * n) \div g, (s * d) \div g>>

Int2Rat(n) == <<n, 1>>
Zero == Int2Rat(0)
One == Int2Rat(1)

IsFloat(a) == Len(a) = 3

\* n/d > 0 brought into [2^(FloatBits-1), 2^FloatBits) by a power of two:
\* <<n', d', k>> with n/d = (n'/d') * 2^k
RECURSIVE Scaled(_, _, _)
Scaled(n, d, k) ==
    IF n < Pow2(FloatBits - 1) * d THEN Scaled(2 * n, d, k - 1)
    ELSE IF n >= Pow2(FloatBits) * d THEN Scaled(n, 2 * d, k + 1)
    ELSE <<n, d, k>>

\* the integer nearest to n/d, the even one of two equally near
NearestEven(n, d) ==
    LET q == n \div d
        r == n % d
    IN  IF 2 * r < d THEN q
        ELSE IF 2 * r > d THEN q + 1
        ELSE IF q % 2 = 0 THEN q ELSE q + 1

\* the float nearest to the fraction x
Float(x) ==
    IF x[1] = 0 THEN <<0, 1, "float">>
    ELSE LET sc == Scaled(Abs(x[1]), x[2], 0)
             m == NearestEven(sc[1], sc[2])
             sg == IF x[1] < 0 THEN -1 ELSE 1
             v == IF sc[3] >= 0 THEN Rat(sg * m * Pow2(sc[3]), 1)
                  ELSE Rat(sg * m, Pow2(-sc[3]))
         IN  <<v[1], v[2], "float">>

\* Python's coercion: a result is a float when an operand is
Coerce(a, b, x) == IF IsFloat(a) \/ IsFloat(b) THEN Float(x) ELSE x

RAdd(a, b) == Coerce(a, b, Rat(a[1] * b[2] + b[1] * a[2], a[2] * b[2]))
RNeg(a) == [a EXCEPT ![1] = -a[1]]
RSub(a, b) == RAdd(a, RNeg(b))
RMul(a, b) == Coerce(a, b, Rat(a[1] * b[1], a[2] * b[2]))
\* a / b for b # 0; the callers model ZeroDivisionError for b = 0
RDiv(a, b) == Coerce(a, b, Rat(a[1] * b[2], a[2] * b[1]))
RIsZero(a) == a[1] = 0
\* Python's ==, which compares an int and a float by value
NumEq(a, b) == a[1] = b[1] /\ a[2] = b[2]

Cx(re, im) == [re |-> re, im |-> im]
Real(a) == Cx(a, Zero)
CAdd(a, b) == Cx(RAdd(a.re, b.re), RAdd(a.im, b.im))
CMul(a, b) == Cx(RSub(RMul(a.re, b.re), RMul(a.im, b.im)),
                 RAdd(RMul(a.re, b.im), RMul(a.im, b.re)))
\* a / b for b # 0
CDiv(a, b) ==
    LET m == RAdd(RMul(b.re, b.re), RMul(b.im, b.im))
    IN  Cx(RDiv(RAdd(RMul(a.re, b.re), RMul(a.im, b.im)), m),
           RDiv(RSub(RMul(a.im, b.re), RMul(a.re, b.im)), m))

\* Python's None and a supplied value
None == <<>>
Some(v) == <<v>>
Val(o) == o[1]

\* a float result that may be math.inf or -math.inf
Fin(v) == [k |-> "fin", v |-> v]
PosInf == [k |-> "inf", v |-> One]
NegInf == [k |-> "inf", v |-> RNeg(One)]

(* ------------------------------ ABCD ----------------------------------- *)
\* ABCD.__init__
ABCDInit(A, B, C, D, n1, n2, disp, tilt, length, E, F) ==
    [n1 |-> n1, n2 |-> n2, A |-> A, B |-> B, C |-> C, D |-> D,
     E |-> IF E = None
           THEN RAdd(RMul(RSub(One, A), disp),
                     RMul(RSub(length, RMul(n1, B)), tilt))
           ELSE Val(E),
     F |-> IF F = None
           THEN RAdd(RMul(RNeg(C), disp),
                     RMul(RSub(n2, RMul(n1, D)), tilt))
           ELSE Val(F)]

\* ABCD.__eq__
ABCDEq(a, b) ==
    /\ NumEq(a.A, b.A) /\ NumEq(a.B, b.B) /\ NumEq(a.C, b.C)
    /\ NumEq(a.D, b.D) /\ NumEq(a.E, b.E) /\ NumEq(a.F, b.F)

\* ABCD.__matmul__, other an ABCD: self @ other
ComposeBadN(self, other) ==
    ABCDInit(RAdd(RMul(self.A, other.A), RMul(self.B, other.C)),
             RAdd(RMul(self.A, other.B), RMul(self.B, other.D)),
             RAdd(RMul(self.C, other.A), RMul(self.D, other.C)),
             RAdd(RMul(self.C, other.B), RMul(self.D, other.D)),
             self.n1, other.n2, Zero, Zero, Zero,
             Some(RAdd(RAdd(RMul(self.A, other.E), RMul(self.B, other.F)), self.E)),
             Some(RAdd(RAdd(RMul(self.C, other.E), RMul(self.D, other.F)), self.F)))

ComposeBadE(self, other) ==
    ABCDInit(RAdd(RMul(self.A, other.A), RMul(self.B, other.C)),
             RAdd(RMul(self.A, other.B), RMul(self.B, other.D)),
             RAdd(RMul(self.C, other.A), RMul(self.D, other.C)),
             RAdd(RMul(self.C, other.B), RMul(self.D, other.D)),
             other.n1, self.n2, Zero, Zero, Zero,
             Some(RAdd(RAdd(RMul(self.A, other.E), RMul(self.B, other.F)), other.E)),
             Some(RAdd(RAdd(RMul(self.C, other.E), RMul(self.D, other.F)), self.F)))

Compose(self, other) ==
    ABCDInit(RAdd(RMul(self.A, other.A), RMul(self.B, other.C)),
             RAdd(RMul(self.A, other.B), RMul(self.B, other.D)),
             RAdd(RMul(self.C, other.A), RMul(self.D, other.C)),
             RAdd(RMul(self.C, other.B), RMul(self.D, other.D)),
             other.n1, self.n2, Zero, Zero, Zero,
             Some(RAdd(RAdd(RMul(self.A, other.E), RMul(self.B, other.F)), self.E)),
             Some(RAdd(RAdd(RMul(self.C, other.E), RMul(self.D, other.F)), self.F)))

\* the height computed with the operator's n1 where the ray's index belongs
ApplyYStoredIndex(self, other) ==
    CAdd(CAdd(CMul(Real(self.A), other.y),
              CMul(Real(RMul(self.B, self.n1)), other.u)),
         Real(self.E))

\* ABCD.__matmul__, other a Ray: the new height and angle
ApplyY(self, other) ==
    CAdd(CAdd(CMul(Real(self.A), other.y),
              CMul(Real(RMul(self.B, other.n)), other.u)),
         Real(self.E))

ApplyUBadIndex(self, other) ==
    CDiv(CAdd(CAdd(CMul(Real(self.C), other.y),
                   CMul(Real(RMul(self.D, self.n1)), other.u)),
              Real(self.F)),
         Real(self.n2))

ApplyU(self, other) ==
    CDiv(CAdd(CAdd(CMul(Real(self.C), other.y),
                   CMul(Real(RMul(self.D, other.n)), other.u)),
              Real(self.F)),
         Real(self.n2))

\* the copy keeps the index of the ray it was made from
ApplyToKeepIndex(self, other) ==
    [other EXCEPT !.y = ApplyY(self, other),
                  !.u = ApplyU(self, other)]

\* ABCD.__matmul__, other a Ray: ret = deepcopy(other) with y, u, n replaced
ApplyTo(self, other) ==
    [other EXCEPT !.y = ApplyY(self, other),
                  !.u = ApplyU(self, other),
                  !.n = self.n2]

\* add_misalignments with n2 where E takes n1
MisalignedBadIndex(self, disp, tilt, length) ==
    [self EXCEPT
        !.E = RAdd(RMul(RSub(One, self.A), disp),
                   RMul(RSub(length, RMul(self.n2, self.B)), tilt)),
        !.F = RAdd(RMul(RNeg(self.C), disp),
                   RMul(RSub(self.n2, RMul(self.n1, self.D)), tilt))]

\* ABCD.add_misalignments
Misaligned(self, disp, tilt, length) ==
    [self EXCEPT
        !.E = RAdd(RMul(RSub(One, self.A), disp),
                   RMul(RSub(length, RMul(self.n1, self.B)), tilt)),
        !.F = RAdd(RMul(RNeg(self.C), disp),
                   RMul(RSub(self.n2, RMul(self.n1, self.D)), tilt))]

(* -------------------------- cardinal points ---------------------------- *)
\* each property divides by C and returns a fixed infinity on ZeroDivisionError
F1(self) ==
    IF RIsZero(self.C) THEN NegInf
    ELSE Fin(RDiv(RMul(self.n1, self.D), self.C))

P1(self) ==
    IF RIsZero(self.C) THEN NegInf
    ELSE Fin(RDiv(RMul(self.n1, RSub(self.D, One)), self.C))

N1(self) ==
    IF RIsZero(self.C) THEN NegInf
    ELSE Fin(RDiv(RSub(RMul(self.D, self.n1), self.n2), self.C))

f1(self) ==
    IF RIsZero(self.C) THEN PosInf
    ELSE Fin(RDiv(RNeg(self.n1), self.C))

F2(self) ==
    IF RIsZero(self.C) THEN PosInf
    ELSE Fin(RDiv(RMul(RNeg(self.n2), self.A), self.C))

P2(self) ==
    IF RIsZero(self.C) THEN PosInf
    ELSE Fin(RDiv(RMul(self.n2, RSub(One, self.A)), self.C))

N2(self) ==
    IF RIsZero(self.C) THEN PosInf
    ELSE Fin(RDiv(RSub(self.n1, RMul(self.A, self.n2)), self.C))

f2NegInf(self) ==
    IF RIsZero(self.C) THEN NegInf
    ELSE Fin(RDiv(RNeg(self.n2), self.C))

f2(self) ==
    IF RIsZero(self.C) THEN PosInf
    ELSE Fin(RDiv(RNeg(self.n2), self.C))

CardinalNames == {"F1", "P1", "N1", "f1", "F2", "P2", "N2", "f2"}

\* reading the property `p' of the operator
Cardinal(self, p) ==
    CASE p = "F1" -> F1(self)
      [] p = "P1" -> P1(self)
      [] p = "N1" -> N1(self)
      [] p = "f1" -> f1(self)
      [] p = "F2" -> F2(self)
      [] p = "P2" -> P2(self)
      [] p = "N2" -> N2(self)
      [] p = "f2" -> f2(self)

(* ------------------------ element constructors ------------------------- *)
\* Transfer.__init__(t, n, **kwargs): kwargs carry n1 and n2 when given
Transfer(t, n, n1, n2) ==
    ABCDInit(One, RDiv(t, n), Zero, One, n1, n2, Zero, Zero, Zero, None, None)

\* a surface whose power has the wrong sign
RefractionBadSign(R, n1, n2) ==
    LET C1 == Float(One)
        C2 == Float(One)
        denominator == RMul(C1, C2)
        numerator == RSub(RMul(n2, C2), RMul(n1, C1))
        dne == RDiv(numerator, denominator)
    IN  ABCDInit(RDiv(C2, C1), Zero, RDiv(dne, R), RDiv(C1, C2), n1, n2,
                 Zero, Zero, Zero, None, None)

\* Refraction.__init__(R, n1, n2) at the default AOI = 0, T_or_S = "T":
\* AOE = asin(0.0) = 0.0 and C1 = C2 = cos(0.0) = 1.0, floats
Refraction(R, n1, n2) ==
    LET C1 == Float(One)
        C2 == Float(One)
        denominator == RMul(C1, C2)
        numerator == RSub(RMul(n2, C2), RMul(n1, C1))
        dne == RDiv(numerator, denominator)
    IN  ABCDInit(RDiv(C2, C1), Zero, RDiv(RNeg(dne), R), RDiv(C1, C2), n1, n2,
                 Zero, Zero, Zero, None, None)

\* ThinLens.__init__(f)
ThinLens(f) ==
    ABCDInit(One, Zero, RDiv(RNeg(One), f), One, One, One,
             Zero, Zero, Zero, None, None)

\* ThickLens.__init__(R1, R2, t, n_glass, n_ambient): net = r2 @ t @ r1
ThickLens(R1, R2, t, n_glass, n_ambient) ==
    LET r1 == Refraction(R1, n_ambient, n_glass)
        tr == Transfer(t, n_glass, One, One)
        r2 == Refraction(R2, n_glass, n_ambient)
        net == Compose(Compose(r2, tr), r1)
    IN  ABCDInit(net.A, net.B, net.C, net.D, net.n1, net.n2,
                 Zero, Zero, Zero, None, None)

(* ------------------------- Ray, GaussianBeam --------------------------- *)
\* the default vacuum wavelength 532e-9 m, in nanometres
DefaultLambda0 == 532

\* Ray.__init__
RayInit(cls, y, u, n, lam) ==
    [cls |-> cls, y |-> y, u |-> u, n |-> n, lam |-> lam]

\* GaussianBeam.__init__: "if R == 0: R = math.inf"
NormR(R) == IF R = Some(Fin(Zero)) THEN Some(PosInf) ELSE R

\* GaussianBeam.__init__: "if w == 0 or zR == 0: raise ValueError"
InvalidArg(kw) == kw.w = Some(Zero) \/ kw.zR = Some(Zero)

\* GaussianBeam.__init__: "x is not None"
Supplied(v) == v # None

\* the chain with a truthiness test of z ("... and z") in place of
\* "z is not None"
SolverTruthyZ(kw) ==
    LET R == NormR(kw.R)
        z == IF kw.z = Some(Zero) THEN None ELSE kw.z
    IN  IF Supplied(kw.q) THEN "q"
        ELSE IF Supplied(R) /\ Supplied(kw.w) THEN "R_w"
        ELSE IF Supplied(z) /\ Supplied(kw.zR) THEN "z_zR"
        ELSE IF Supplied(R) /\ Supplied(z) THEN "R_z"
        ELSE IF Supplied(R) /\ Supplied(kw.zR) THEN "R_zR"
        ELSE IF Supplied(kw.w) /\ Supplied(z) THEN "w_z"
        ELSE IF Supplied(kw.w) /\ Supplied(kw.zR) THEN "w_zR"
        ELSE "none"

\* GaussianBeam.__init__: the if / elif chain choosing the solver
Solver(kw) ==
    LET R == NormR(kw.R)
    IN  IF Supplied(kw.q) THEN "q"
        ELSE IF Supplied(R) /\ Supplied(kw.w) THEN "R_w"
        ELSE IF Supplied(kw.z) /\ Supplied(kw.zR) THEN "z_zR"
        ELSE IF Supplied(R) /\ Supplied(kw.z) THEN "R_z"
        ELSE IF Supplied(R) /\ Supplied(kw.zR) THEN "R_zR"
        ELSE IF Supplied(kw.w) /\ Supplied(kw.z) THEN "w_z"
        ELSE IF Supplied(kw.w) /\ Supplied(kw.zR) THEN "w_zR"
        ELSE "none"

ErrInvalid == "ValueError: Invalid argument w or zR"
ErrNoConfig == "ValueError: No valid configuration for beam found"
ErrType == "TypeError"

\* what GaussianBeam.__init__ raises ("" when it returns)
\* the zero check placed after the q branch
BeamErrorCheckAfterQ(kw) ==
    IF Supplied(kw.q) THEN ""
    ELSE IF InvalidArg(kw) THEN ErrInvalid
    ELSE IF Solver(kw) = "none" THEN ErrNoConfig
    ELSE ""

BeamError(kw) ==
    IF InvalidArg(kw) THEN ErrInvalid
    ELSE IF Solver(kw) = "none" THEN ErrNoConfig
    ELSE ""

\* equations.q_from_z_zR(z, zR, n): the reduced parameter (z + 1j * zR) / n
q_from_z_zR(z, zR, n) == CDiv(Cx(z, zR), Real(n))

\* the solvers whose value the model computes; the other five live in
\* equations.py and take square roots and pi
Computed == {"q", "z_zR"}

\* GaussianBeam.__init__: the reduced parameter qr of a computed solver
ReducedQ(kw) ==
    IF Solver(kw) = "q" THEN CDiv(Val(kw.q), Real(kw.n))
    ELSE q_from_z_zR(Val(kw.z), Val(kw.zR), kw.n)

\* GaussianBeam.__init__: super().__init__(1, 1 / (n * qr), n, lam)
BeamInit(kw) ==
    RayInit("GaussianBeam", Real(One),
            CDiv(Real(One), CMul(Real(kw.n), ReducedQ(kw))), kw.n, kw.lam)

\* GaussianBeam.q, .z, .zR
BeamQ(self) == CDiv(self.y, self.u)
BeamZ(self) == BeamQ(self).re
BeamZR(self) == BeamQ(self).im

\* GaussianBeam.R: 1 / (1 / q).real, math.inf on ZeroDivisionError
BeamR(self) ==
    LET real == CDiv(Real(One), BeamQ(self)).re
    IN  IF RIsZero(real) THEN PosInf ELSE Fin(RDiv(One, real))

\* GaussianBeam.w: imag = (n / q).imag, of which w is a function with the
\* wavelength
BeamWImag(self) == CDiv(Real(self.n), BeamQ(self)).im

\* Ray.__eq__: y, u, n and the wavelength compared by value
RayEq(a, b) ==
    /\ NumEq(a.y.re, b.y.re) /\ NumEq(a.y.im, b.y.im)
    /\ NumEq(a.u.re, b.u.re) /\ NumEq(a.u.im, b.u.im)
    /\ NumEq(a.n, b.n)
    /\ a.lam = b.lam

Kwargs(lam, n, q, R, w, z, zR) ==
    [lam |-> lam, n |-> n, q |-> q, R |-> R, w |-> w, z |-> z, zR |-> zR]
NoKwargs == Kwargs(DefaultLambda0, One, None, None, None, None, None)

(* ------------------------------ inputs --------------------------------- *)
Two == Int2Rat(2)

\* arguments of ABCD(...): the identity, a focusing system between two
\* media with explicit E and F, an afocal system built with misalignment
ABCDArg(A, B, C, D, n1, n2, disp, tilt, length, E, F) ==
    [A |-> A, B |-> B, C |-> C, D |-> D, n1 |-> n1, n2 |-> n2,
     disp |-> disp, tilt |-> tilt, length |-> length, E |-> E, F |-> F]

ABCDArgs ==
    { ABCDArg(One, Zero, Zero, One, One, One, Zero, Zero, Zero, None, None),
      ABCDArg(Two, One, One, One, One, Two, Zero, Zero, Zero,
              Some(One), Some(RNeg(One))),
      ABCDArg(One, Two, Zero, Int2Rat(3), Two, One, One, One, One, None, None) }

\* ABCD(A=1.5) and ABCD(A=1.75): float coefficients
FloatABCDArgs ==
    { ABCDArg(Float(Rat(3, 2)), Zero, Zero, One, One, One, Zero, Zero, Zero,
              None, None),
      ABCDArg(Float(Rat(7, 4)), Zero, Zero, One, One, One, Zero, Zero, Zero,
              None, None) }

\* ABCD(n1=a, n2=b): flat interfaces between two media, and one curved
\* interface ABCD(C=-1, n1=1, n2=2)
InterfaceArgs ==
    { ABCDArg(One, Zero, Zero, One, a, b, Zero, Zero, Zero, None, None) :
        a \in {One, Two, Int2Rat(3)}, b \in {One, Two, Int2Rat(3)} }
    \cup
    { ABCDArg(One, Zero, RNeg(One), One, One, Two, Zero, Zero, Zero,
              None, None) }

\* radii and focal lengths as floats: 10e-3 (10 mm), 3.0, 5.0
LensLengths == {Float(Rat(1, 100)), Float(Int2Rat(3)), Float(Int2Rat(5))}

\* ThickLens(R1, R2, t, n_glass) in air: R1 > 0 > R2, thickness 0 or 1,
\* glass index 1.5 or 1.75
ThickLensArgs ==
    { [R1 |-> a, R2 |-> RNeg(b), t |-> t, n |-> n] :
        a \in LensLengths, b \in LensLengths, t \in {Zero, Float(One)},
        n \in {Float(Rat(3, 2)), Float(Rat(7, 4))} }

NoLens == [R1 |-> Zero, R2 |-> Zero, t |-> Zero, n |-> Zero]

\* operators applied in sequence: two exact ones between different media,
\* with E and F, and ABCD(A=1.5, B=1) with a float coefficient
ChainArgs ==
    { ABCDArg(Two, One, One, One, One, Two, Zero, Zero, Zero,
              Some(One), Some(RNeg(One))),
      ABCDArg(One, Two, Zero, Int2Rat(3), Int2Rat(3), One, One, One, One,
              None, None),
      ABCDArg(Float(Rat(3, 2)), One, Zero, One, One, One, Zero, Zero, Zero,
              None, None) }

\* Transfer(t, n) with default n1 = n2 = 1, and Transfer(t, n, n1=n, n2=n)
TransferArgs ==
    { [t |-> One, n |-> One, n1 |-> One, n2 |-> One],
      [t |-> Int2Rat(4), n |-> Two, n1 |-> One, n2 |-> One],
      [t |-> Int2Rat(4), n |-> Two, n1 |-> Two, n2 |-> Two] }

\* Ray(y, u, n) with the default wavelength
RayArgs ==
    { [y |-> One, u |-> One, n |-> One],
      [y |-> Two, u |-> RNeg(One), n |-> Two] }

\* add_misalignments(disp, tilt, length)
MisArgs == { <<One, Two, One>> }

\* GaussianBeam(...) as the algebra uses it: two beams from {z, zR}, one
\* from q, one rejected call, one call solved in equations.py
CoreKwargs ==
    { Kwargs(DefaultLambda0, One, None, None, None, Some(One), Some(One)),
      Kwargs(DefaultLambda0, Two, None, None, None, Some(Two), Some(One)),
      Kwargs(DefaultLambda0, Two, Some(Cx(One, Two)), None, None, None, None),
      Kwargs(DefaultLambda0, One, None, Some(Fin(One)), Some(Zero), None, None),
      Kwargs(DefaultLambda0, One, None, Some(Fin(Two)), None, Some(One), None) }

\* every combination of supplied and missing keyword arguments
AllKwargs ==
    { Kwargs(DefaultLambda0, n, q, R, w, z, zR) :
        n \in {One, Two},
        q \in {None, Some(Cx(One, One))},
        R \in {None, Some(Fin(Zero)), Some(Fin(Two))},
        w \in {None, Some(Zero), Some(One)},
        z \in {None, Some(Zero), Some(One)},
        zR \in {None, Some(Zero), Some(One)} }

(* ------------------------------- state --------------------------------- *)
Names == {"s", "t"}

Unbound == [k |-> "none", id |-> 0]
OpRef(i) == [k |-> "op", id |-> i]
RayRef(i) == [k |-> "ray", id |-> i]

\* the references to the objects on the heap
Refs ==
    {OpRef(i) : i \in 1..Len(ops)} \cup {RayRef(i) : i \in 1..Len(rays)}

NoCall ==
    [op |-> "none", X |-> 0, Y |-> 0, r |-> 0, ret |-> 0, err |-> "",
     solver |-> "", kw |-> NoKwargs, p |-> "", val |-> Fin(Zero),
     nm |-> "", mis |-> <<Zero, Zero, Zero>>, lens |-> NoLens]

Init ==
    /\ ops = <<>>
    /\ rays = <<>>
    /\ names = [nm \in Names |-> Unbound]
    /\ last = NoCall

(* ------------------------------ the heap ------------------------------- *)
\* left @ right for two ABCDs: "return ABCD(...)" allocates the result
MatmulOp(os, i, j) ==
    [heap |-> Append(os, Compose(os[i], os[j])), ret |-> Len(os) + 1]

\* Ray.__imatmul__ and ABCD.__imatmul__: "return other @ self"; the caller's
\* "s @= X" then binds s to what is returned
IMatmulOp(os, self, other) == MatmulOp(os, other, self)

\* X @ r with the copy left out: the result is the operand itself
MatmulRayNoCopy(rs, X, r) ==
    [heap |-> [rs EXCEPT ![r] = ApplyTo(X, rs[r])], ret |-> r]

\* X @ r for a Ray r: "ret = copy.deepcopy(other)" allocates the result
MatmulRay(rs, X, r) ==
    [heap |-> Append(rs, ApplyTo(X, rs[r])), ret |-> Len(rs) + 1]

\* an update of the fields of self in place
IMatmulRayInPlace(rs, self, X) ==
    [heap |-> [rs EXCEPT ![self] = ApplyTo(X, rs[self])], ret |-> self]

IMatmulRay(rs, self, X) == MatmulRay(rs, X, self)

(* ------------------------------ actions -------------------------------- *)
\* ABCD(...)
NewABCD(args, maxOps) ==
    \E a \in args :
        /\ Len(ops) < maxOps
        /\ ops' = Append(ops, ABCDInit(a.A, a.B, a.C, a.D, a.n1, a.n2,
                                        a.disp, a.tilt, a.length, a.E, a.F))
        /\ last' = [NoCall EXCEPT !.op = "ABCD", !.ret = Len(ops) + 1]
        /\ UNCHANGED <<rays, names>>

\* Transfer(t, n, **kwargs)
NewTransfer(maxOps) ==
    \E a \in TransferArgs :
        /\ Len(ops) < maxOps
        /\ ops' = Append(ops, Transfer(a.t, a.n, a.n1, a.n2))
        /\ last' = [NoCall EXCEPT !.op = "Transfer", !.ret = Len(ops) + 1]
        /\ UNCHANGED <<rays, names>>

\* ThinLens(f)
NewThinLens(maxOps) ==
    \E f \in LensLengths :
        /\ Len(ops) < maxOps
        /\ ops' = Append(ops, ThinLens(f))
        /\ last' = [NoCall EXCEPT !.op = "ThinLens", !.ret = Len(ops) + 1,
                                  !.lens = [NoLens EXCEPT !.R1 = f]]
        /\ UNCHANGED <<rays, names>>

\* ThickLens(R1, R2, t, n_glass): the surfaces and the gap are temporaries
\* of the constructor, the lens is the one new object
NewThickLens(maxOps) ==
    \E a \in ThickLensArgs :
        /\ Len(ops) < maxOps
        /\ ops' = Append(ops, ThickLens(a.R1, a.R2, a.t, a.n, One))
        /\ last' = [NoCall EXCEPT !.op = "ThickLens", !.ret = Len(ops) + 1,
                                  !.lens = a]
        /\ UNCHANGED <<rays, names>>

\* Ray(y, u, n)
NewRay(maxRays) ==
    \E a \in RayArgs :
        /\ Len(rays) < maxRays
        /\ rays' = Append(rays, RayInit("Ray", Real(a.y), Real(a.u), a.n,
                                         DefaultLambda0))
        /\ last' = [NoCall EXCEPT !.op = "Ray", !.ret = Len(rays) + 1]
        /\ UNCHANGED <<ops, names>>

\* GaussianBeam(**kw) raises
BeamRejected(kw) ==
    /\ BeamError(kw) # ""
    /\ last' = [NoCall EXCEPT !.op = "GaussianBeam", !.kw = kw,
                              !.err = BeamError(kw)]
    /\ UNCHANGED <<ops, rays, names>>

\* GaussianBeam(**kw) returns a beam the model computes
BeamBuilt(kw, maxRays) ==
    /\ BeamError(kw) = ""
    /\ Solver(kw) \in Computed
    /\ Len(rays) < maxRays
    /\ rays' = Append(rays, BeamInit(kw))
    /\ last' = [NoCall EXCEPT !.op = "GaussianBeam", !.kw = kw,
                              !.solver = Solver(kw), !.ret = Len(rays) + 1]
    /\ UNCHANGED <<ops, names>>

\* GaussianBeam(**kw) hands the arguments to a solver of equations.py; the
\* call and the solver chosen are recorded, the beam is not kept
BeamSolvedElsewhere(kw) ==
    /\ BeamError(kw) = ""
    /\ Solver(kw) \notin Computed
    /\ last' = [NoCall EXCEPT !.op = "GaussianBeam", !.kw = kw,
                              !.solver = Solver(kw)]
    /\ UNCHANGED <<ops, rays, names>>

NewGaussianBeam(KW, maxRays) ==
    \E kw \in KW :
        BeamRejected(kw) \/ BeamBuilt(kw, maxRays) \/ BeamSolvedElsewhere(kw)

\* left @ right
ComposeOps(maxOps) ==
    \E i, j \in 1..Len(ops) :
        /\ Len(ops) < maxOps
        /\ ops' = MatmulOp(ops, i, j).heap
        /\ last' = [NoCall EXCEPT !.op = "compose", !.X = i, !.Y = j,
                                  !.ret = MatmulOp(ops, i, j).ret]
        /\ UNCHANGED <<rays, names>>

\* X @ r
ApplyOp(maxRays) ==
    \E i \in 1..Len(ops), r \in 1..Len(rays) :
        /\ Len(rays) < maxRays
        /\ rays' = MatmulRay(rays, ops[i], r).heap
        /\ last' = [NoCall EXCEPT !.op = "apply", !.X = i, !.r = r,
                                  !.ret = MatmulRay(rays, ops[i], r).ret]
        /\ UNCHANGED <<ops, names>>

\* X.add_misalignments(disp, tilt, length)
AddMisalignments ==
    \E i \in 1..Len(ops), m \in MisArgs :
        /\ ops' = [ops EXCEPT ![i] = Misaligned(ops[i], m[1], m[2], m[3])]
        /\ last' = [NoCall EXCEPT !.op = "add_misalignments", !.X = i,
                                  !.mis = m]
        /\ UNCHANGED <<rays, names>>

\* X.F1, X.P1, ... X.f2
ReadCardinal ==
    \E i \in 1..Len(ops), p \in CardinalNames :
        /\ last' = [NoCall EXCEPT !.op = "read", !.X = i, !.p = p,
                                  !.val = Cardinal(ops[i], p)]
        /\ UNCHANGED <<ops, rays, names>>

\* nm = <an object>: plain assignment of a reference
Bind ==
    \E nm \in Names, ref \in Refs :
        /\ names[nm] # ref
        /\ names' = [names EXCEPT ![nm] = ref]
        /\ last' = [NoCall EXCEPT !.op = "bind", !.nm = nm]
        /\ UNCHANGED <<ops, rays>>

\* nm @= X for a name bound to a Ray or GaussianBeam
IMatMulRay(maxRays) ==
    \E nm \in Names, x \in 1..Len(ops) :
        /\ names[nm].k = "ray"
        /\ Len(rays) < maxRays
        /\ LET res == IMatmulRay(rays, names[nm].id, ops[x])
           IN  /\ rays' = res.heap
               /\ names' = [names EXCEPT ![nm] = RayRef(res.ret)]
               /\ last' = [NoCall EXCEPT !.op = "imatmul", !.nm = nm,
                                         !.X = x, !.ret = res.ret]
        /\ UNCHANGED ops

\* nm @= X for a name bound to an ABCD
IMatMulOp(maxOps) ==
    \E nm \in Names, x \in 1..Len(ops) :
        /\ names[nm].k = "op"
        /\ Len(ops) < maxOps
        /\ LET res == IMatmulOp(ops, names[nm].id, x)
           IN  /\ ops' = res.heap
               /\ names' = [names EXCEPT ![nm] = OpRef(res.ret)]
               /\ last' = [NoCall EXCEPT !.op = "imatmul", !.nm = nm,
                                         !.X = x, !.ret = res.ret]
        /\ UNCHANGED rays

\* nm @= r for a Ray r: "other @ self" finds no __matmul__ on a Ray
IMatMulByRay ==
    \E nm \in Names, r \in 1..Len(rays) :
        /\ names[nm].k # "none"
        /\ last' = [NoCall EXCEPT !.op = "imatmul", !.nm = nm, !.r = r,
                                  !.err = ErrType]
        /\ UNCHANGED <<ops, rays, names>>

(* --------------------------- specifications ---------------------------- *)
\* construction, composition and application
Next ==
    \/ NewABCD(ABCDArgs, MaxOpsSmall)
    \/ NewTransfer(MaxOpsSmall)
    \/ NewRay(MaxRays)
    \/ NewGaussianBeam(CoreKwargs, MaxRays)
    \/ ComposeOps(MaxOpsSmall)
    \/ ApplyOp(MaxRays)

Spec == Init /\ [][Next]_vars

\* the operators alone: construction and composition
NextCompose ==
    \/ NewABCD(ABCDArgs \cup FloatABCDArgs, MaxOps)
    \/ NewTransfer(MaxOps)
    \/ ComposeOps(MaxOps)

SpecCompose == Init /\ [][NextCompose]_vars

\* operators that are misaligned and read between compositions and
\* applications
NextMisalign ==
    \/ NewABCD(ABCDArgs, MaxOpsSmall)
    \/ NewRay(MaxRays)
    \/ ComposeOps(MaxOpsSmall)
    \/ ApplyOp(MaxRays)
    \/ AddMisalignments
    \/ ReadCardinal

SpecMisalign == Init /\ [][NextMisalign]_vars

\* the caller's names and the augmented assignment
NextRebind ==
    \/ NewABCD(ABCDArgs, MaxOpsSmall)
    \/ NewRay(MaxRays)
    \/ NewGaussianBeam(CoreKwargs, MaxRays)
    \/ Bind
    \/ IMatMulRay(MaxRays)
    \/ IMatMulOp(MaxOpsSmall)
    \/ IMatMulByRay

SpecRebind == Init /\ [][NextRebind]_vars

\* every call of the GaussianBeam constructor
NextBeam == NewGaussianBeam(AllKwargs, MaxBeams)

SpecBeam == Init /\ [][NextBeam]_vars

\* beams crossing interfaces
NextInterface ==
    \/ NewABCD(InterfaceArgs, MaxInterfaces)
    \/ NewGaussianBeam(CoreKwargs, MaxRays)
    \/ ApplyOp(MaxRays)

SpecInterface == Init /\ [][NextInterface]_vars

\* lenses
NextLens ==
    \/ NewThinLens(MaxOpsSmall)
    \/ NewThickLens(MaxOpsSmall)

SpecLens == Init /\ [][NextLens]_vars

\* operators composed and applied one after another
NextChain ==
    \/ NewABCD(ChainArgs, MaxOpsSmall)
    \/ NewRay(MaxChainRays)
    \/ ComposeOps(MaxOpsSmall)
    \/ ApplyOp(MaxChainRays)

SpecChain == Init /\ [][NextChain]_vars

(* ------------------------------ claims --------------------------------- *)
OpIds == 1..Len(ops)
RayIds == 1..Len(rays)

\* C1: X @ r returns a new object of r's class with
\* y' = X.A*r.y + X.B*r.n*r.u + X.E, u' = (X.C*r.y + X.D*r.n*r.u + X.F) / X.n2,
\* n' = X.n2 and the wavelength of r; the index in the formulas is r.n, the
\* ray's own, also when X.n1 differs from it.
C1_ApplyFormula ==
    last.op = "apply" =>
        LET X == ops[last.X]
            r == rays[last.r]
            res == rays[last.ret]
            nu == CMul(Real(r.n), r.u)
        IN  /\ last.ret # last.r
            /\ res.cls = r.cls
            /\ res.y = CAdd(CAdd(CMul(Real(X.A), r.y), CMul(Real(X.B), nu)),
                            Real(X.E))
            /\ res.u = CDiv(CAdd(CAdd(CMul(Real(X.C), r.y), CMul(Real(X.D), nu)),
                                 Real(X.F)),
                            Real(X.n2))
            /\ res.n = X.n2
            /\ res.lam = r.lam

\* an operator whose n1 is not the beam's index has been applied to a
\* GaussianBeam, and the angle would differ had n1 been used
C1_Witness ==
    /\ last.op = "apply"
    /\ rays[last.r].cls = "GaussianBeam"
    /\ ops[last.X].n1 # rays[last.r].n
    /\ rays[last.ret].u # ApplyUBadIndex(ops[last.X], rays[last.r])

\* C2: left @ right is a new operator with the 2x2 product left*right as
\* A, B, C, D, with E = left.A*right.E + left.B*right.F + left.E and
\* F = left.C*right.E + left.D*right.F + left.F, n1 of right and n2 of left.
C2_ComposeFormula ==
    last.op = "compose" =>
        LET l == ops[last.X]
            r == ops[last.Y]
            res == ops[last.ret]
        IN  /\ last.ret \notin {last.X, last.Y}
            /\ res.A = RAdd(RMul(l.A, r.A), RMul(l.B, r.C))
            /\ res.B = RAdd(RMul(l.A, r.B), RMul(l.B, r.D))
            /\ res.C = RAdd(RMul(l.C, r.A), RMul(l.D, r.C))
            /\ res.D = RAdd(RMul(l.C, r.B), RMul(l.D, r.D))
            /\ res.E = RAdd(RAdd(RMul(l.A, r.E), RMul(l.B, r.F)), l.E)
            /\ res.F = RAdd(RAdd(RMul(l.C, r.E), RMul(l.D, r.F)), l.F)
            /\ res.n1 = r.n1
            /\ res.n2 = l.n2

\* two different operators with different indices on their two sides,
\* which do not commute, have been composed
C2_Witness ==
    /\ last.op = "compose"
    /\ last.X # last.Y
    /\ ops[last.X].n1 # ops[last.Y].n1
    /\ ops[last.X].n2 # ops[last.Y].n2
    /\ ~RIsZero(ops[last.Y].E)
    /\ ~RIsZero(ops[last.X].E)
    /\ ops[last.ret] # Compose(ops[last.Y], ops[last.X])

\* ABCD(): A = 1, B = 0, C = 0, D = 1, E = 0, F = 0
Identity ==
    ABCDInit(One, Zero, Zero, One, One, One, Zero, Zero, Zero, None, None)

\* (X@Y)@Z and X@(Y@Z) agree on A..F and on n1, n2
Associative(X, Y, Z) ==
    LET lhs == Compose(Compose(X, Y), Z)
        rhs == Compose(X, Compose(Y, Z))
    IN  /\ ABCDEq(lhs, rhs)
        /\ NumEq(lhs.n1, rhs.n1)
        /\ NumEq(lhs.n2, rhs.n2)

\* composing with the identity operator on either side leaves A..F
UnitLaw(X) ==
    /\ ABCDEq(Compose(X, Identity), X)
    /\ ABCDEq(Compose(Identity, X), X)

\* no coefficient of the operator is a float
ExactOp(X) ==
    \A v \in {X.A, X.B, X.C, X.D, X.E, X.F, X.n1, X.n2} : ~IsFloat(v)

\* C3 as written: composition is associative, (X@Y)@Z and X@(Y@Z) agree on
\* A..F and on n1, n2, for all operators, and composing with the identity
\* operator on either side leaves A..F as they are.
C3_AssociativeAll ==
    /\ \A x, y, z \in OpIds : Associative(ops[x], ops[y], ops[z])
    /\ \A x \in OpIds : UnitLaw(ops[x])

\* C3 as amended: composition is associative on A..F, n1, n2 for operators
\* whose coefficients are exact numbers (with float coefficients the two
\* groupings round differently), and the identity operator is a two-sided
\* unit for every operator.
C3_AssociativeExact ==
    /\ \A x, y, z \in OpIds :
          (ExactOp(ops[x]) /\ ExactOp(ops[y]) /\ ExactOp(ops[z])) =>
              Associative(ops[x], ops[y], ops[z])
    /\ \A x \in OpIds : UnitLaw(ops[x])

\* the heap holds a composite and two exact operators that do not commute
\* with it or with each other, with offsets that are not zero
C3_Witness ==
    /\ last.op = "compose"
    /\ \E x, y \in OpIds :
          /\ x # y /\ x # last.ret /\ y # last.ret
          /\ ExactOp(ops[x]) /\ ExactOp(ops[y]) /\ ExactOp(ops[last.ret])
          /\ ~ABCDEq(Compose(ops[x], ops[y]), Compose(ops[y], ops[x]))
          /\ ~ABCDEq(Compose(ops[x], ops[last.ret]),
                     Compose(ops[last.ret], ops[x]))
          /\ ~RIsZero(ops[x].E) /\ ~RIsZero(ops[y].F)
          /\ ~RIsZero(Compose(Compose(ops[x], ops[y]), ops[last.ret]).E)

\* the objects that exist before a step are the same after it
OpsKept == \A i \in OpIds : i \in 1..Len(ops') /\ ops'[i] = ops[i]
RaysKept == \A i \in RayIds : i \in 1..Len(rays') /\ rays'[i] = rays[i]

\* C4: X @ r and left @ right leave their operands as they were and return
\* an object that did not exist before; a later change of an object
\* (add_misalignments) changes that object alone.
C4_OperandsUnchanged ==
    [][ /\ last'.op = "apply" =>
              /\ OpsKept /\ RaysKept
              /\ last'.ret = Len(rays) + 1
              /\ Len(rays') = Len(rays) + 1
        /\ last'.op = "compose" =>
              /\ OpsKept /\ RaysKept
              /\ last'.ret = Len(ops) + 1
              /\ Len(ops') = Len(ops) + 1
        /\ last'.op = "add_misalignments" =>
              /\ RaysKept
              /\ Len(ops') = Len(ops)
              /\ \A i \in OpIds \ {last'.X} : ops'[i] = ops[i]
      ]_vars

\* the result of a composition has been misaligned after the composition,
\* and the result of an application exists beside its operand, which differs
C4_Witness ==
    /\ last.op = "add_misalignments"
    /\ \E i, j \in OpIds :
          /\ last.X \notin {i, j}
          /\ ABCDEq(Misaligned(Compose(ops[i], ops[j]), last.mis[1],
                               last.mis[2], last.mis[3]),
                    ops[last.X])
          /\ ~ABCDEq(Compose(ops[i], ops[j]), ops[last.X])
    /\ \E i \in OpIds, r, q \in RayIds :
          r # q /\ rays[q] = ApplyTo(ops[i], rays[r]) /\ rays[q] # rays[r]

C6_AfocalInfinite ==
    (last.op = "read" /\ RIsZero(ops[last.X].C)) =>
        /\ last.err = ""
        /\ last.val \in {PosInf, NegInf}
        /\ last.p \in {"f1", "f2"} => last.val = PosInf

\* f2 has been read from an afocal operator between two different media
\* with A, B, D other than the identity's
C6_Witness ==
    /\ last.op = "read" /\ last.p = "f2"
    /\ RIsZero(ops[last.X].C)
    /\ ops[last.X].n1 # ops[last.X].n2
    /\ ops[last.X].D # One /\ ops[last.X].B # Zero
    /\ last.val = PosInf

\* C7: GaussianBeam(...) with w = 0 or zR = 0 raises the invalid-argument
\* ValueError whatever else is supplied, and builds no beam.
C7_ZeroRejected ==
    (last.op = "GaussianBeam" /\ (last.kw.w = Some(Zero) \/ last.kw.zR = Some(Zero))) =>
        /\ last.err = ErrInvalid
        /\ last.ret = 0
        /\ last.solver = ""

\* a call with zR = 0 that also supplies q and the complete pair (R, w)
C7_Witness ==
    /\ last.op = "GaussianBeam"
    /\ last.kw.zR = Some(Zero)
    /\ last.kw.q # None /\ last.kw.R # None
    /\ last.kw.w # None /\ last.kw.w # Some(Zero)
    /\ last.err = ErrInvalid

\* the pairs in their order of precedence, after q
PairOrder ==
    << <<"R_w", "R", "w">>, <<"z_zR", "z", "zR">>, <<"R_z", "R", "z">>,
       <<"R_zR", "R", "zR">>, <<"w_z", "w", "z">> , <<"w_zR", "w", "zR">> >>

\* the keyword arguments present in a call
Present(kw) ==
    {a \in {"q", "R", "w", "z", "zR"} :
        CASE a = "q" -> kw.q # None
          [] a = "R" -> kw.R # None
          [] a = "w" -> kw.w # None
          [] a = "z" -> kw.z # None
          [] a = "zR" -> kw.zR # None}

\* C8: with w and zR not zero the solver is chosen by which arguments are
\* present, 0 counting as present: q first, then the first of (R,w), (z,zR),
\* (R,z), (R,zR), (w,z), (w,zR) that is complete; the no-valid-configuration
\* error is raised exactly when q is absent and fewer than two of R, w, z,
\* zR are present.
C8_SolverPrecedence ==
    (last.op = "GaussianBeam" /\ last.kw.w # Some(Zero) /\ last.kw.zR # Some(Zero)) =>
        LET has == Present(last.kw)
            complete == {i \in 1..Len(PairOrder) :
                            {PairOrder[i][2], PairOrder[i][3]} \subseteq has}
        IN  /\ "q" \in has => last.solver = "q" /\ last.err = ""
            /\ ("q" \notin has /\ complete # {}) =>
                  /\ last.err = ""
                  /\ \E i \in complete :
                        /\ \A j \in complete : i <= j
                        /\ last.solver = PairOrder[i][1]
            /\ last.err \in {"", ErrNoConfig}
            /\ last.err = ErrNoConfig <=>
                  ("q" \notin has /\ Cardinality(has \ {"q"}) < 2)

\* R = 0 and z = 0 alone select the (R, z) solver
C8_Witness ==
    /\ last.op = "GaussianBeam"
    /\ last.kw.R = Some(Fin(Zero)) /\ last.kw.z = Some(Zero)
    /\ last.kw.q = None /\ last.kw.w = None /\ last.kw.zR = None
    /\ last.solver = "R_z"

\* C9: add_misalignments(disp, tilt, length) sets
\* E = (1-A)*disp + (length - n1*B)*tilt and F = -C*disp + (n2 - n1*D)*tilt
\* and keeps A, B, C, D, n1, n2; no other operation changes an operator
\* that exists.
C9_OnlyMisalignMutates ==
    [][ /\ last'.op = "add_misalignments" =>
              LET o == ops[last'.X]
                  n == ops'[last'.X]
                  disp == last'.mis[1]
                  tilt == last'.mis[2]
                  length == last'.mis[3]
              IN  /\ n.E = RAdd(RMul(RSub(One, o.A), disp),
                                RMul(RSub(length, RMul(o.n1, o.B)), tilt))
                  /\ n.F = RSub(RMul(RSub(o.n2, RMul(o.n1, o.D)), tilt),
                                RMul(o.C, disp))
                  /\ n.A = o.A /\ n.B = o.B /\ n.C = o.C /\ n.D = o.D
                  /\ n.n1 = o.n1 /\ n.n2 = o.n2
        /\ last'.op # "add_misalignments" => OpsKept
      ]_vars

\* an operator between two media, with C and B not zero, has had E and F
\* changed by add_misalignments
C9_Witness ==
    /\ last.op = "add_misalignments"
    /\ ops[last.X].n1 # ops[last.X].n2
    /\ ~RIsZero(ops[last.X].C) /\ ~RIsZero(ops[last.X].B)
    /\ ~RIsZero(ops[last.X].E) /\ ~RIsZero(ops[last.X].F)
    /\ ops[last.X].A # One

\* C10: a GaussianBeam built from {z, zR} in a medium of index n, sent
\* through Transfer(L, n), is a beam in the same medium with z' = z + L and
\* zR' = zR.
C10_FreeSpace ==
    \A a \in TransferArgs, kw \in CoreKwargs :
        ( /\ last.op = "apply"
          /\ a.n1 = One /\ a.n2 = One
          /\ ops[last.X] = Transfer(a.t, a.n, One, One)
          /\ BeamError(kw) = "" /\ Solver(kw) = "z_zR"
          /\ rays[last.r] = BeamInit(kw)
          /\ kw.n = a.n ) =>
            /\ NumEq(rays[last.ret].n, a.n)
            /\ NumEq(BeamZ(rays[last.ret]), RAdd(Val(kw.z), a.t))
            /\ NumEq(BeamZR(rays[last.ret]), Val(kw.zR))

\* a flat index-only interface: A = D = 1, B = C = 0, E = F = 0
FlatInterface(X) ==
    /\ NumEq(X.A, One) /\ NumEq(X.B, Zero) /\ NumEq(X.C, Zero)
    /\ NumEq(X.D, One) /\ NumEq(X.E, Zero) /\ NumEq(X.F, Zero)

\* C11: a flat interface n1 -> n2 applied to a GaussianBeam in the medium
\* n1 returns a beam of index n2 with q' = (n2/n1)*q, so z' = (n2/n1)*z,
\* zR' = (n2/n1)*zR and R' = (n2/n1)*R, with (n/q).imag, and so the radius
\* w, unchanged and the wavelength kept.
C11_FlatInterface ==
    ( /\ last.op = "apply"
      /\ FlatInterface(ops[last.X])
      /\ rays[last.r].cls = "GaussianBeam"
      /\ NumEq(rays[last.r].n, ops[last.X].n1) ) =>
        LET X == ops[last.X]
            gb1 == rays[last.r]
            gb2 == rays[last.ret]
            k == RDiv(X.n2, X.n1)
        IN  /\ gb2.cls = "GaussianBeam"
            /\ NumEq(gb2.n, X.n2)
            /\ gb2.lam = gb1.lam
            /\ BeamQ(gb2) = CMul(Real(k), BeamQ(gb1))
            /\ NumEq(BeamZ(gb2), RMul(k, BeamZ(gb1)))
            /\ NumEq(BeamZR(gb2), RMul(k, BeamZR(gb1)))
            /\ BeamR(gb2) = IF BeamR(gb1) = PosInf THEN PosInf
                             ELSE Fin(RMul(k, BeamR(gb1).v))
            /\ NumEq(BeamWImag(gb2), BeamWImag(gb1))

\* a beam has crossed a flat interface between two different media, from
\* the medium it was in, and its q changed
C11_Witness ==
    /\ last.op = "apply"
    /\ FlatInterface(ops[last.X])
    /\ rays[last.r].cls = "GaussianBeam"
    /\ rays[last.r].n = ops[last.X].n1
    /\ ops[last.X].n1 # ops[last.X].n2
    /\ BeamQ(rays[last.ret]) # BeamQ(rays[last.r])
    /\ BeamZR(rays[last.ret]) = RMul(Int2Rat(3), BeamZR(rays[last.r]))

\* -(n - 1) * (1/R1 - 1/R2), as Python evaluates the expression
Lensmaker(R1, R2, n) ==
    RMul(RNeg(RSub(n, One)), RSub(RDiv(One, R1), RDiv(One, R2)))

\* C12 as stated: every ThickLens(R1, R2, 0, n) in air has A = 1, B = 0,
\* D = 1, E = F = 0 and C equal to -(n-1)*(1/R1 - 1/R2).
C12_LensmakerAll ==
    (last.op = "ThickLens" /\ RIsZero(last.lens.t)) =>
        LET a == last.lens
        IN  ABCDEq(ops[last.ret],
                   ABCDInit(One, Zero, Lensmaker(a.R1, a.R2, a.n), One,
                            One, One, Zero, Zero, Zero, None, None))

\* C12: ThickLens(R1, R2, 0, n) in air has A = 1, B = 0, D = 1, E = F = 0
\* and n1 = n2 = 1 exactly, and its C is the float sum of the powers of its
\* two surfaces, -(1 - n)/R2 and -(n - 1)/R1; for R2 = -R1 and n = 1.5 the
\* lens equals ThinLens(R1), so ThickLens(10mm, -10mm, 0, 1.5) equals
\* ThinLens(10mm).
C12_ZeroThickness ==
    (last.op = "ThickLens" /\ RIsZero(last.lens.t)) =>
        LET a == last.lens
            thick == ops[last.ret]
        IN  /\ NumEq(thick.A, One) /\ NumEq(thick.B, Zero)
            /\ NumEq(thick.D, One)
            /\ NumEq(thick.E, Zero) /\ NumEq(thick.F, Zero)
            /\ NumEq(thick.n1, One) /\ NumEq(thick.n2, One)
            /\ NumEq(thick.C, RAdd(RDiv(RNeg(RSub(One, a.n)), a.R2),
                                   RDiv(RNeg(RSub(a.n, One)), a.R1)))
            /\ (NumEq(a.R2, RNeg(a.R1)) /\ NumEq(a.n, Rat(3, 2))) =>
                    ABCDEq(thick, ThinLens(a.R1))

\* ThickLens(10mm, -10mm, 0, 1.5) has been built, and it has the power of
\* ThinLens(10mm)
C12_Witness ==
    /\ last.op = "ThickLens"
    /\ last.lens = [R1 |-> Float(Rat(1, 100)), R2 |-> RNeg(Float(Rat(1, 100))),
                    t |-> Zero, n |-> Float(Rat(3, 2))]
    /\ ~RIsZero(ops[last.ret].C)
    /\ ops[last.ret].C = ThinLens(Float(Rat(1, 100))).C

\* no float among the fields of the ray
ExactRay(r) ==
    /\ ~IsFloat(r.y.re) /\ ~IsFloat(r.y.im)
    /\ ~IsFloat(r.u.re) /\ ~IsFloat(r.u.im)
    /\ ~IsFloat(r.n)

\* after X1 @ r returned `mid': X2 @ mid and (X2 @ X1) @ r have the same y,
\* u, n and wavelength
Compatible2(X2, X1, r, mid) ==
    LET net == Compose(X2, X1)
    IN  RayEq(ApplyTo(X2, mid), ApplyTo(net, r))

\* C13 as stated: for every ray and all operators, applying them one after
\* another gives the same y, u, n and wavelength as applying the net
\* operator.
C13_CompatibleAll ==
    last.op = "apply" =>
        \A j \in OpIds :
            Compatible2(ops[j], ops[last.X], rays[last.r], rays[last.ret])

\* C13: for every ray and all operators whose numbers are exact, applying
\* them one after another gives the same y, u, n and wavelength as applying
\* the net operator, whatever n1, n2 and the ray's index are; the operators
\* include net operators and the rays include results of applications, which
\* gives the longer sequences.
C13_CompatibleExact ==
    (last.op = "apply" /\ ExactOp(ops[last.X]) /\ ExactRay(rays[last.r])) =>
        \A j \in OpIds :
            ExactOp(ops[j]) =>
                Compatible2(ops[j], ops[last.X], rays[last.r], rays[last.ret])

\* the net operator X2 @ X1 has just been applied to a ray that X1 alone
\* was applied to before, X2 applied to that intermediate gives the ray
\* returned now, and neither X2.n1 nor the ray's index matched
C13_Witness ==
    /\ last.op = "apply"
    /\ ExactOp(ops[last.X]) /\ ExactRay(rays[last.r])
    /\ \E i \in OpIds, j \in OpIds, a \in RayIds :
           /\ ops[last.X] = Compose(ops[j], ops[i])
           /\ ops[i].n2 # ops[j].n1
           /\ rays[last.r].n # ops[i].n1
           /\ rays[a] = ApplyTo(ops[i], rays[last.r])
           /\ rays[last.ret] = ApplyTo(ops[j], rays[a])
           /\ rays[last.ret].y # rays[a].y
           /\ ~RIsZero(ops[j].B) /\ ~RIsZero(ops[i].C)

\* the numerator of the ratio that the property `p' divides by C
Numerator(self, p) ==
    CASE p = "F1" -> RMul(self.n1, self.D)
      [] p = "P1" -> RMul(self.n1, RSub(self.D, One))
      [] p = "N1" -> RSub(RMul(self.D, self.n1), self.n2)
      [] p = "f1" -> RNeg(self.n1)
      [] p = "F2" -> RMul(RNeg(self.n2), self.A)
      [] p = "P2" -> RMul(self.n2, RSub(One, self.A))
      [] p = "N2" -> RSub(self.n1, RMul(self.A, self.n2))
      [] p = "f2" -> RNeg(self.n2)

\* the infinity that numerator / C tends to as C tends to 0 from the side
\* `side' (1 from above, -1 from below), for a numerator other than 0
LimitOf(num, side) ==
    IF (num[1] > 0) = (side > 0) THEN PosInf ELSE NegInf

\* C14: with C = 0 the sign of the infinity each cardinal point returns is
\* the limiting sign of its own ratio as C tends to 0 from one side, the
\* same side for all eight, so it flips with the sign of the numerator.
C14_LimitingSign ==
    (last.op = "read" /\ RIsZero(ops[last.X].C)) =>
        \E side \in {-1, 1} :
            \A p \in CardinalNames :
                ~RIsZero(Numerator(ops[last.X], p)) =>
                    Cardinal(ops[last.X], p)
                        = LimitOf(Numerator(ops[last.X], p), side)

=============================================================================
